---- MODULE Spec2Model ----
(***************************************************************************)
(* CQLServiceImpl (src/yb/cqlserver/cql_service.cc): the processor pool    *)
(* of the CQL service and the Handle entry point that serves one inbound   *)
(* call on one processor of the pool.                                      *)
(*                                                                         *)
(* Each element of Threads is an RPC worker thread that runs Handle for    *)
(* one inbound call after the other; the threads interleave at the         *)
(* granularity of the statements of Handle, GetProcessor and SendResponse. *)
(* A processor is identified by the ordinal of its creation.               *)
(***************************************************************************)
EXTENDS Integers, Sequences, FiniteSets, TLC

\* Number of worker threads that call Handle concurrently.
NThreads == 3
\* Number of those threads that receive calls in the fair specification.
NLiveThreads == 2
\* FLAGS_cql_service_num_threads: the configured initial pool size.
cql_service_num_threads == 3
\* Number of threads that receive calls in the timed specification.
NTimedThreads == 1
\* Largest reading of the clock that is explored.
MaxClock == 3

\* The null CQLProcessor pointer.
nullptr == 0
\* The minimum increment of GetProcessor's reserve: size + 10.
kMinReserve == 10

Threads == 1..NThreads
LiveThreads == 1..NLiveThreads
TimedThreads == 1..NTimedThreads

\* What ProcessCall leaves in `response`: a result or an error response.
Responses == {"ok", "error"}

VARIABLES
  processors,              \* processors_: the processors in vector order
  capacity,                \* processors_.capacity()
  is_used,                 \* is_used[p]: the busy flag of processor p
  process_mutex,           \* process_mutex_: the set of threads holding it
  pc,                      \* pc[t]: the statement thread t executes next
  it,                      \* it[t]: position of GetProcessor's range-for
  cql_processor,           \* cql_processor[t]: GetProcessor's local
  processor,               \* processor[t]: Handle's local
  response,                \* response[t]: Handle's local unique_ptr
  acquired,                \* processors GetProcessor returned to this call
  released,                \* processors this call called unused() on
  serialized,              \* number of Serialize calls of this call
  responded,               \* number of RespondSuccess calls of this call
  trace,                   \* trace[t]: the calls this invocation made, in order
  scan_idle,               \* the processors that were idle when the running
                           \* GetProcessor locked the mutex
  peak,                    \* most invocations that were inside Handle at once
  recording,               \* whether scan_idle and peak are being recorded
  now,                     \* the reading of the monotonic clock
  checkpoint,              \* checkpoint[t]: the MonoTime locals of Handle
  samples                  \* samples[t]: the metric samples this call emitted

vars == <<processors, capacity, is_used, process_mutex, pc, it, cql_processor,
          processor, response, acquired, released, serialized, responded,
          trace, scan_idle, peak, recording, now, checkpoint, samples>>

pool == <<processors, capacity, is_used>>
locals == <<it, cql_processor, processor, response>>
history == <<acquired, released, serialized, responded>>
observed == <<trace, scan_idle, peak, recording>>
timing == <<now, checkpoint, samples>>

----------------------------------------------------------------------------
(* std::vector primitives, on the pair (elements, capacity).               *)

\* vector::reserve(n): the capacity becomes n when it was smaller; the size
\* and the elements are untouched.
reserve(cap, n) == IF n > cap THEN n ELSE cap

\* The capacity after vector::emplace_back on a vector of `size` elements:
\* a full vector reallocates to twice its capacity.
emplace_back_capacity(cap, size) ==
  IF size < cap THEN cap ELSE IF cap = 0 THEN 1 ELSE 2 * cap

Max(a, b) == IF a >= b THEN a ELSE b

\* The processor `new CQLProcessor(...)` yields: the next creation ordinal.
NewProcessor == Len(is_used) + 1

(* CQLProcessor's busy flag: a new processor is idle, is_used() reads the   *)
(* flag, used() sets it and unused() clears it.                            *)
NewProcessorFlag == FALSE
IsUsed(flags, p) == flags[p]
Used(flags, p) == [flags EXCEPT ![p] = TRUE]
Unused(flags, p) == [flags EXCEPT ![p] = FALSE]

(* MonoTime: Handle's four checkpoints, not yet taken, and the delta       *)
(* between two of them in clock units.                                     *)
NoCheckpoints ==
  [start |-> 0, got_processor |-> 0, process_done |-> 0, response_done |-> 0]

GetDeltaSince(later, earlier) == later - earlier

\* The threads that are inside Handle.
InHandle == {t \in Threads : pc[t] \notin {"idle", "done", "aborted"}}

\* The processors of the pool whose flag says idle.
IdleProcessors == {p \in 1..Len(is_used) : ~IsUsed(is_used, p)}

----------------------------------------------------------------------------
(* CQLServiceImpl::CQLServiceImpl: reserve() leaves processors_ empty, so   *)
(* the range-for that follows constructs no processor.                     *)

ServiceInit ==
  /\ processors = << >>
  /\ capacity = reserve(0, cql_service_num_threads)
  /\ is_used = << >>
  /\ process_mutex = {}
  /\ pc = [t \in Threads |-> "idle"]
  /\ it = [t \in Threads |-> 1]
  /\ cql_processor = [t \in Threads |-> nullptr]
  /\ processor = [t \in Threads |-> nullptr]
  /\ response = [t \in Threads |-> "null"]
  /\ acquired = [t \in Threads |-> << >>]
  /\ released = [t \in Threads |-> << >>]
  /\ serialized = [t \in Threads |-> 0]
  /\ responded = [t \in Threads |-> 0]
  /\ trace = [t \in Threads |-> << >>]
  /\ scan_idle = {}
  /\ peak = 0
  /\ now = 0
  /\ checkpoint = [t \in Threads |-> NoCheckpoints]
  /\ samples = [t \in Threads |-> << >>]

Init == ServiceInit /\ recording = FALSE

\* The same service, with the history variables scan_idle and peak recorded.
ObservedInit == ServiceInit /\ recording = TRUE

----------------------------------------------------------------------------
(* CQLServiceImpl::Handle, up to the call of GetProcessor.                 *)

\* MonoTime start = MonoTime::Now(MonoTime::FINE);
TakeStart(t) ==
  /\ checkpoint' = [checkpoint EXCEPT ![t].start = now]
  /\ UNCHANGED <<now, samples>>

HandleEnter(t) ==
  /\ pc[t] = "idle"
  /\ pc' = [pc EXCEPT ![t] = "GetProcessor"]
  /\ peak' = IF recording THEN Max(peak, Cardinality(InHandle) + 1) ELSE peak
  /\ TakeStart(t)
  /\ UNCHANGED <<pool, process_mutex, locals, history, trace, scan_idle,
                 recording>>

(* CQLServiceImpl::GetProcessor.                                           *)

\* std::lock_guard<std::mutex> guard(process_mutex_); cql_processor = nullptr;
\* the range-for starts at processors_.begin().
Lock(t) ==
  /\ pc[t] = "GetProcessor"
  /\ process_mutex = {}
  /\ process_mutex' = {t}
  /\ cql_processor' = [cql_processor EXCEPT ![t] = nullptr]
  /\ it' = [it EXCEPT ![t] = 1]
  /\ pc' = [pc EXCEPT ![t] = "scan"]
  /\ scan_idle' = IF recording THEN IdleProcessors ELSE scan_idle
  /\ UNCHANGED <<pool, processor, response, history, trace, peak, recording,
                 timing>>

\* Mutation of ScanStep: the scan does not test is_used().
ScanStep_IgnoresBusy(t) ==
  /\ pc[t] = "scan"
  /\ it[t] <= Len(processors)
  /\ cql_processor' = [cql_processor EXCEPT ![t] = processors[it[t]]]
  /\ it' = [it EXCEPT ![t] = @ + 1]
  /\ UNCHANGED <<pool, process_mutex, pc, processor, response, history,
                 observed, timing>>

\* Mutation of ScanStep: the loop breaks at the first idle processor, so
\* later idle processors do not overwrite the candidate.
ScanStep_StopsAtFirstIdle(t) ==
  /\ pc[t] = "scan"
  /\ it[t] <= Len(processors)
  /\ cql_processor' =
       [cql_processor EXCEPT
          ![t] = IF @ = nullptr /\ ~IsUsed(is_used, processors[it[t]])
                 THEN processors[it[t]] ELSE @]
  /\ it' = [it EXCEPT ![t] = @ + 1]
  /\ UNCHANGED <<pool, process_mutex, pc, processor, response, history,
                 observed, timing>>

\* Mutation of ScanStep: an idle processor may or may not replace a
\* candidate that was already found.
ScanStep_AnyIdle(t) ==
  /\ pc[t] = "scan"
  /\ it[t] <= Len(processors)
  /\ \E keep \in BOOLEAN :
       cql_processor' =
         [cql_processor EXCEPT
            ![t] = IF ~IsUsed(is_used, processors[it[t]])
                      /\ (@ = nullptr \/ ~keep)
                   THEN processors[it[t]] ELSE @]
  /\ it' = [it EXCEPT ![t] = @ + 1]
  /\ UNCHANGED <<pool, process_mutex, pc, processor, response, history,
                 observed, timing>>

\* One iteration of the range-for: an idle processor overwrites the candidate;
\* the loop has no break.
ScanStep(t) ==
  /\ pc[t] = "scan"
  /\ it[t] <= Len(processors)
  /\ cql_processor' =
       [cql_processor EXCEPT
          ![t] = IF ~IsUsed(is_used, processors[it[t]])
                 THEN processors[it[t]] ELSE @]
  /\ it' = [it EXCEPT ![t] = @ + 1]
  /\ UNCHANGED <<pool, process_mutex, pc, processor, response, history,
                 observed, timing>>

\* Mutation of CreateIfNeeded: with no idle processor the call waits for one
\* (it rescans) instead of growing the pool.
CreateIfNeeded_Waits(t) ==
  /\ pc[t] = "scan"
  /\ it[t] > Len(processors)
  /\ IF cql_processor[t] = nullptr
     THEN /\ it' = [it EXCEPT ![t] = 1]
          /\ UNCHANGED pc
     ELSE /\ pc' = [pc EXCEPT ![t] = "used"]
          /\ UNCHANGED it
  /\ UNCHANGED <<pool, process_mutex, cql_processor, processor, response,
                 history, observed, timing>>

\* Mutation of CreateIfNeeded: the new processor replaces the collection
\* instead of being appended to it.
CreateIfNeeded_Replaces(t) ==
  /\ pc[t] = "scan"
  /\ it[t] > Len(processors)
  /\ IF cql_processor[t] = nullptr
     THEN /\ cql_processor' = [cql_processor EXCEPT ![t] = NewProcessor]
          /\ is_used' = Append(is_used, NewProcessorFlag)
          /\ processors' = <<NewProcessor>>
          /\ UNCHANGED capacity
     ELSE UNCHANGED <<cql_processor, is_used, processors, capacity>>
  /\ pc' = [pc EXCEPT ![t] = "used"]
  /\ UNCHANGED <<process_mutex, it, processor, response, history, observed,
                 timing>>

\* Mutation of CreateIfNeeded: a processor is created on every call, also
\* when the scan found an idle one.
CreateIfNeeded_Always(t) ==
  /\ pc[t] = "scan"
  /\ it[t] > Len(processors)
  /\ LET size == Len(processors)
         reserved == reserve(capacity, Max(size * 2, size + kMinReserve))
     IN /\ cql_processor' = [cql_processor EXCEPT ![t] = NewProcessor]
        /\ is_used' = Append(is_used, NewProcessorFlag)
        /\ processors' = Append(processors, NewProcessor)
        /\ capacity' = emplace_back_capacity(reserved, size)
  /\ pc' = [pc EXCEPT ![t] = "used"]
  /\ UNCHANGED <<process_mutex, it, processor, response, history, observed,
                 timing>>

\* Mutation of CreateIfNeeded: the new processor is appended without the
\* reserve, so the vector grows only when it is full.
CreateIfNeeded_NoReserve(t) ==
  /\ pc[t] = "scan"
  /\ it[t] > Len(processors)
  /\ IF cql_processor[t] = nullptr
     THEN /\ cql_processor' = [cql_processor EXCEPT ![t] = NewProcessor]
          /\ is_used' = Append(is_used, NewProcessorFlag)
          /\ processors' = Append(processors, NewProcessor)
          /\ capacity' = emplace_back_capacity(capacity, Len(processors))
     ELSE UNCHANGED <<cql_processor, is_used, processors, capacity>>
  /\ pc' = [pc EXCEPT ![t] = "used"]
  /\ UNCHANGED <<process_mutex, it, processor, response, history, observed,
                 timing>>

\* Mutation of CreateIfNeeded: growth creates two processors, the selected
\* one and a spare.
CreateIfNeeded_Pair(t) ==
  /\ pc[t] = "scan"
  /\ it[t] > Len(processors)
  /\ IF cql_processor[t] = nullptr
     THEN LET size == Len(processors)
              reserved == reserve(capacity, Max(size * 2, size + kMinReserve))
          IN /\ cql_processor' = [cql_processor EXCEPT ![t] = NewProcessor]
             /\ is_used' = Append(Append(is_used, NewProcessorFlag),
                                  NewProcessorFlag)
             /\ processors' = Append(Append(processors, NewProcessor),
                                     NewProcessor + 1)
             /\ capacity' = emplace_back_capacity(
                              emplace_back_capacity(reserved, size), size + 1)
     ELSE UNCHANGED <<cql_processor, is_used, processors, capacity>>
  /\ pc' = [pc EXCEPT ![t] = "used"]
  /\ UNCHANGED <<process_mutex, it, processor, response, history, observed,
                 timing>>

\* Mutation of CreateIfNeeded: creating a processor resets the busy flags of
\* the processors already in the pool.
CreateIfNeeded_ResetsFlags(t) ==
  /\ pc[t] = "scan"
  /\ it[t] > Len(processors)
  /\ IF cql_processor[t] = nullptr
     THEN LET size == Len(processors)
              reserved == reserve(capacity, Max(size * 2, size + kMinReserve))
          IN /\ cql_processor' = [cql_processor EXCEPT ![t] = NewProcessor]
             /\ is_used' = [i \in 1..(size + 1) |-> NewProcessorFlag]
             /\ processors' = Append(processors, NewProcessor)
             /\ capacity' = emplace_back_capacity(reserved, size)
     ELSE UNCHANGED <<cql_processor, is_used, processors, capacity>>
  /\ pc' = [pc EXCEPT ![t] = "used"]
  /\ UNCHANGED <<process_mutex, it, processor, response, history, observed,
                 timing>>

\* After the loop: when no idle processor was seen, create one, reserve
\* max(size * 2, size + 10) and append it.
CreateIfNeeded(t) ==
  /\ pc[t] = "scan"
  /\ it[t] > Len(processors)
  /\ IF cql_processor[t] = nullptr
     THEN LET size == Len(processors)
              reserved == reserve(capacity, Max(size * 2, size + kMinReserve))
          IN /\ cql_processor' = [cql_processor EXCEPT ![t] = NewProcessor]
             /\ is_used' = Append(is_used, NewProcessorFlag)
             /\ processors' = Append(processors, NewProcessor)
             /\ capacity' = emplace_back_capacity(reserved, size)
     ELSE UNCHANGED <<cql_processor, is_used, processors, capacity>>
  /\ pc' = [pc EXCEPT ![t] = "used"]
  /\ UNCHANGED <<process_mutex, it, processor, response, history, observed,
                 timing>>

\* Mutation of MarkUsed: the selected processor is not flagged busy.
MarkUsed_NoFlag(t) ==
  /\ pc[t] = "used"
  /\ pc' = [pc EXCEPT ![t] = "return"]
  /\ UNCHANGED <<pool, process_mutex, locals, history, observed, timing>>

\* cql_processor->used();
MarkUsed(t) ==
  /\ pc[t] = "used"
  /\ is_used' = Used(is_used, cql_processor[t])
  /\ pc' = [pc EXCEPT ![t] = "return"]
  /\ UNCHANGED <<processors, capacity, process_mutex, locals, history,
                 observed, timing>>

\* MonoTime got_processor = MonoTime::Now(MonoTime::FINE);
\* time_to_get_cql_processor_->Increment(got_processor - start).
TakeGotProcessor(t) ==
  /\ checkpoint' = [checkpoint EXCEPT ![t].got_processor = now]
  /\ samples' =
       [samples EXCEPT
          ![t] = Append(@, <<"time_to_get_cql_processor",
                             GetDeltaSince(now, checkpoint[t].start)>>)]
  /\ UNCHANGED now

\* Mutation of ReturnProcessor: the mutex stays locked after the return.
ReturnProcessor_KeepsLock(t) ==
  /\ pc[t] = "return"
  /\ processor' = [processor EXCEPT ![t] = cql_processor[t]]
  /\ acquired' = [acquired EXCEPT ![t] = Append(@, cql_processor[t])]
  /\ trace' = [trace EXCEPT ![t] = Append(@, <<"GetProcessor", cql_processor[t]>>)]
  /\ it' = [it EXCEPT ![t] = 1]
  /\ cql_processor' = [cql_processor EXCEPT ![t] = nullptr]
  /\ pc' = [pc EXCEPT ![t] = "ProcessCall"]
  /\ scan_idle' = {}
  /\ TakeGotProcessor(t)
  /\ UNCHANGED <<pool, process_mutex, response, released, serialized,
                 responded, peak, recording>>

\* return cql_processor; the lock_guard unlocks process_mutex_, GetProcessor's
\* locals go out of scope and Handle stores the result in `processor` and
\* takes the got_processor checkpoint.
ReturnProcessor(t) ==
  /\ pc[t] = "return"
  /\ process_mutex' = process_mutex \ {t}
  /\ processor' = [processor EXCEPT ![t] = cql_processor[t]]
  /\ acquired' = [acquired EXCEPT ![t] = Append(@, cql_processor[t])]
  /\ trace' = [trace EXCEPT ![t] = Append(@, <<"GetProcessor", cql_processor[t]>>)]
  /\ it' = [it EXCEPT ![t] = 1]
  /\ cql_processor' = [cql_processor EXCEPT ![t] = nullptr]
  /\ pc' = [pc EXCEPT ![t] = "ProcessCall"]
  /\ scan_idle' = {}
  /\ TakeGotProcessor(t)
  /\ UNCHANGED <<pool, response, released, serialized, responded, peak, recording>>

(* CQLServiceImpl::Handle, after GetProcessor.                             *)

\* MonoTime process_done = MonoTime::Now(MonoTime::FINE);
TakeProcessDone(t) ==
  /\ checkpoint' = [checkpoint EXCEPT ![t].process_done = now]
  /\ UNCHANGED <<now, samples>>

\* processor->ProcessCall(cql_call->serialized_request(), &response);
ProcessCall(t) ==
  /\ pc[t] = "ProcessCall"
  /\ \E r \in Responses : response' = [response EXCEPT ![t] = r]
  /\ trace' = [trace EXCEPT ![t] = Append(@, <<"ProcessCall", processor[t]>>)]
  /\ pc' = [pc EXCEPT ![t] = "SendResponse"]
  /\ TakeProcessDone(t)
  /\ UNCHANGED <<pool, process_mutex, it, cql_processor, processor, history,
                 scan_idle, peak, recording>>

\* ProcessCall breaks its contract and leaves `response` null.
ProcessCallNull(t) ==
  /\ pc[t] = "ProcessCall"
  /\ response' = [response EXCEPT ![t] = "null"]
  /\ trace' = [trace EXCEPT ![t] = Append(@, <<"ProcessCall", processor[t]>>)]
  /\ pc' = [pc EXCEPT ![t] = "SendResponse"]
  /\ TakeProcessDone(t)
  /\ UNCHANGED <<pool, process_mutex, it, cql_processor, processor, history,
                 scan_idle, peak, recording>>

\* SendResponse: CHECK(response != nullptr) fails and aborts the process,
\* all of its threads with it.
CheckFailed(t) ==
  /\ pc[t] = "SendResponse"
  /\ response[t] = "null"
  /\ pc' = [u \in Threads |-> "aborted"]
  /\ UNCHANGED <<pool, process_mutex, locals, history, observed, timing>>

\* Mutation of SendResponse: an error response is dropped, neither serialized
\* nor acknowledged.
SendResponse_OnlyOnSuccess(t) ==
  /\ pc[t] = "SendResponse"
  /\ response[t] # "null"
  /\ IF response[t] = "ok"
     THEN /\ serialized' = [serialized EXCEPT ![t] = @ + 1]
          /\ responded' = [responded EXCEPT ![t] = @ + 1]
          /\ trace' = [trace EXCEPT
                         ![t] = @ \o << <<"Serialize", processor[t]>>,
                                        <<"RespondSuccess", processor[t]>> >>]
     ELSE UNCHANGED <<serialized, responded, trace>>
  /\ pc' = [pc EXCEPT ![t] = "unused"]
  /\ UNCHANGED <<pool, process_mutex, locals, acquired, released, scan_idle,
                 peak, recording, timing>>

\* Mutation of SendResponse: no CHECK, a null response is serialized and
\* acknowledged like any other.
SendResponse_NoCheck(t) ==
  /\ pc[t] = "SendResponse"
  /\ serialized' = [serialized EXCEPT ![t] = @ + 1]
  /\ responded' = [responded EXCEPT ![t] = @ + 1]
  /\ trace' = [trace EXCEPT
                 ![t] = @ \o << <<"Serialize", processor[t]>>,
                                <<"RespondSuccess", processor[t]>> >>]
  /\ pc' = [pc EXCEPT ![t] = "unused"]
  /\ UNCHANGED <<pool, process_mutex, locals, acquired, released, scan_idle,
                 peak, recording, timing>>

\* Mutation of SendResponse: the call is acknowledged before the response is
\* serialized into its buffer.
SendResponse_AckFirst(t) ==
  /\ pc[t] = "SendResponse"
  /\ response[t] # "null"
  /\ serialized' = [serialized EXCEPT ![t] = @ + 1]
  /\ responded' = [responded EXCEPT ![t] = @ + 1]
  /\ trace' = [trace EXCEPT
                 ![t] = @ \o << <<"RespondSuccess", processor[t]>>,
                                <<"Serialize", processor[t]>> >>]
  /\ pc' = [pc EXCEPT ![t] = "unused"]
  /\ UNCHANGED <<pool, process_mutex, locals, acquired, released, scan_idle,
                 peak, recording, timing>>

\* SendResponse(cql_call, response.get()): CHECK(response != nullptr), then
\* response->Serialize(...) and then context->RespondSuccess().
SendResponse(t) ==
  /\ pc[t] = "SendResponse"
  /\ response[t] # "null"
  /\ serialized' = [serialized EXCEPT ![t] = @ + 1]
  /\ responded' = [responded EXCEPT ![t] = @ + 1]
  /\ trace' = [trace EXCEPT
                 ![t] = @ \o << <<"Serialize", processor[t]>>,
                                <<"RespondSuccess", processor[t]>> >>]
  /\ pc' = [pc EXCEPT ![t] = "unused"]
  /\ UNCHANGED <<pool, process_mutex, locals, acquired, released, scan_idle,
                 peak, recording, timing>>

\* Mutation of TakeResponseDone: "time to process request" is measured from
\* the got_processor checkpoint instead of from start.
TakeResponseDone_FromGotProcessor(t) ==
  /\ checkpoint' = [checkpoint EXCEPT ![t].response_done = now]
  /\ samples' =
       [samples EXCEPT
          ![t] = @ \o << <<"time_to_process_request",
                           GetDeltaSince(now, checkpoint[t].got_processor)>>,
                         <<"time_to_queue_cql_response",
                           GetDeltaSince(now, checkpoint[t].process_done)>> >>]
  /\ UNCHANGED now

\* Mutation of TakeResponseDone: the queueing delta is taken the wrong way
\* round, process_done.GetDeltaSince(response_done).
TakeResponseDone_Swapped(t) ==
  /\ checkpoint' = [checkpoint EXCEPT ![t].response_done = now]
  /\ samples' =
       [samples EXCEPT
          ![t] = @ \o << <<"time_to_process_request",
                           GetDeltaSince(now, checkpoint[t].start)>>,
                         <<"time_to_queue_cql_response",
                           GetDeltaSince(checkpoint[t].process_done, now)>> >>]
  /\ UNCHANGED now

\* MonoTime response_done = MonoTime::Now(MonoTime::FINE);
\* time_to_process_request_->Increment(response_done - start);
\* time_to_queue_cql_response_->Increment(response_done - process_done).
TakeResponseDone(t) ==
  /\ checkpoint' = [checkpoint EXCEPT ![t].response_done = now]
  /\ samples' =
       [samples EXCEPT
          ![t] = @ \o << <<"time_to_process_request",
                           GetDeltaSince(now, checkpoint[t].start)>>,
                         <<"time_to_queue_cql_response",
                           GetDeltaSince(now, checkpoint[t].process_done)>> >>]
  /\ UNCHANGED now

\* Mutation of Release: unused() is called on the first processor of the
\* pool, not on the one this call acquired.
Release_WrongProcessor(t) ==
  /\ pc[t] = "unused"
  /\ is_used' = Unused(is_used, processors[1])
  /\ released' = [released EXCEPT ![t] = Append(@, processors[1])]
  /\ trace' = [trace EXCEPT ![t] = Append(@, <<"unused", processors[1]>>)]
  /\ pc' = [pc EXCEPT ![t] = "done"]
  /\ TakeResponseDone(t)
  /\ UNCHANGED <<processors, capacity, process_mutex, locals, acquired,
                 serialized, responded, scan_idle, peak, recording>>

\* Mutation of Release: the processor is released only after a successful
\* result; after an error response Handle returns without unused().
Release_OnlyOnSuccess(t) ==
  /\ pc[t] = "unused"
  /\ IF response[t] = "ok"
     THEN /\ is_used' = Unused(is_used, processor[t])
          /\ released' = [released EXCEPT ![t] = Append(@, processor[t])]
          /\ trace' = [trace EXCEPT ![t] = Append(@, <<"unused", processor[t]>>)]
     ELSE UNCHANGED <<is_used, released, trace>>
  /\ pc' = [pc EXCEPT ![t] = "done"]
  /\ TakeResponseDone(t)
  /\ UNCHANGED <<processors, capacity, process_mutex, locals, acquired,
                 serialized, responded, scan_idle, peak, recording>>

\* Mutation of Release: unused() also clears the flag of every other
\* processor of the pool.
Release_ClearsAll(t) ==
  /\ pc[t] = "unused"
  /\ is_used' = [p \in 1..Len(is_used) |-> FALSE]
  /\ released' = [released EXCEPT ![t] = Append(@, processor[t])]
  /\ trace' = [trace EXCEPT ![t] = Append(@, <<"unused", processor[t]>>)]
  /\ pc' = [pc EXCEPT ![t] = "done"]
  /\ TakeResponseDone(t)
  /\ UNCHANGED <<processors, capacity, process_mutex, locals, acquired,
                 serialized, responded, scan_idle, peak, recording>>

\* processor->unused(): clears the busy flag; process_mutex_ is not taken.
\* Then the response_done checkpoint and the two remaining samples.
Release(t) ==
  /\ pc[t] = "unused"
  /\ is_used' = Unused(is_used, processor[t])
  /\ released' = [released EXCEPT ![t] = Append(@, processor[t])]
  /\ trace' = [trace EXCEPT ![t] = Append(@, <<"unused", processor[t]>>)]
  /\ pc' = [pc EXCEPT ![t] = "done"]
  /\ TakeResponseDone(t)
  /\ UNCHANGED <<processors, capacity, process_mutex, locals, acquired,
                 serialized, responded, scan_idle, peak, recording>>

\* Handle returns; the thread is free to take the next inbound call.
HandleReturn(t) ==
  /\ pc[t] = "done"
  /\ pc' = [pc EXCEPT ![t] = "idle"]
  /\ processor' = [processor EXCEPT ![t] = nullptr]
  /\ response' = [response EXCEPT ![t] = "null"]
  /\ acquired' = [acquired EXCEPT ![t] = << >>]
  /\ released' = [released EXCEPT ![t] = << >>]
  /\ serialized' = [serialized EXCEPT ![t] = 0]
  /\ responded' = [responded EXCEPT ![t] = 0]
  /\ trace' = [trace EXCEPT ![t] = << >>]
  /\ checkpoint' = [checkpoint EXCEPT ![t] = NoCheckpoints]
  /\ samples' = [samples EXCEPT ![t] = << >>]
  /\ UNCHANGED <<pool, process_mutex, it, cql_processor, scan_idle, peak,
                 recording, now>>

\* The monotonic clock advances.
Tick ==
  /\ now < MaxClock
  /\ now' = now + 1
  /\ UNCHANGED <<pool, process_mutex, pc, locals, history, observed,
                 checkpoint, samples>>

\* One statement of thread t.
ThreadStep(t) ==
    \/ HandleEnter(t)
    \/ Lock(t)
    \/ ScanStep(t)
    \/ CreateIfNeeded(t)
    \/ MarkUsed(t)
    \/ ReturnProcessor(t)
    \/ ProcessCall(t)
    \/ SendResponse(t)
    \/ Release(t)
    \/ HandleReturn(t)

Next == \E t \in Threads : ThreadStep(t)

Spec == Init /\ [][Next]_vars

\* The behaviours in which calls arrive on the threads of LiveThreads only.
LiveNext == \E t \in LiveThreads : ThreadStep(t)

(* Fair scheduling: a thread that can take a step of GetProcessor,          *)
(* SendResponse or unused() eventually takes it, and a thread that finds    *)
(* the mutex free again and again eventually locks it.  Nothing makes a new *)
(* call arrive, and nothing makes ProcessCall return.                      *)
Fairness ==
  \A t \in LiveThreads :
    /\ SF_vars(Lock(t))
    /\ WF_vars(ScanStep(t))
    /\ WF_vars(CreateIfNeeded(t))
    /\ WF_vars(MarkUsed(t))
    /\ WF_vars(ReturnProcessor(t))
    /\ WF_vars(SendResponse(t))
    /\ WF_vars(Release(t))

FairSpec == Init /\ [][LiveNext]_vars /\ Fairness

\* The behaviours in which the clock advances between the statements.
TimedNext == Tick \/ \E t \in TimedThreads : ThreadStep(t)

TimedSpec == Init /\ [][TimedNext]_vars

\* The behaviours in which ProcessCall may break its contract and leave a
\* null response.
FaultNext ==
  \E t \in LiveThreads : ThreadStep(t) \/ ProcessCallNull(t) \/ CheckFailed(t)

FaultSpec == Init /\ [][FaultNext]_vars

\* The behaviours of the live threads with scan_idle and peak recorded.
ObservedSpec == ObservedInit /\ [][LiveNext]_vars

----------------------------------------------------------------------------
(* Who holds what.                                                         *)

\* Thread t is between the return of its GetProcessor and its unused().
InFlight(t) == pc[t] \in {"ProcessCall", "SendResponse", "unused"}

\* Thread t holds processor p: GetProcessor returned p to it and it has not
\* yet called unused().
Holds(t, p) == InFlight(t) /\ processor[t] = p

\* The processor thread t owns: the one it holds, or the one it has
\* selected inside GetProcessor and is about to flag or return; else none.
Owned(t) ==
  IF InFlight(t) THEN processor[t]
  ELSE IF pc[t] \in {"used", "return"} THEN cql_processor[t]
  ELSE nullptr

\* Thread t owns p with p flagged busy on its behalf.
OwnsFlagged(t, p) ==
  \/ Holds(t, p)
  \/ pc[t] = "return" /\ cql_processor[t] = p

Processors == 1..Len(is_used)

----------------------------------------------------------------------------
\* C1 (mutual exclusion): in every interleaving of the acquire and release
\* steps of concurrent Handle invocations, no processor is owned by two
\* invocations at once: GetProcessor never selects or returns a processor
\* that another invocation acquired and has not yet released.
MutualExclusion ==
  \A t \in Threads : \A u \in Threads \ {t} :
    Owned(t) # nullptr => Owned(t) # Owned(u)

\* Two invocations hold different processors at once, one of them a processor
\* that a finished invocation had held and released before.
MutualExclusionWitness ==
  \E t \in Threads : \E u \in Threads \ {t} : \E v \in Threads \ {t, u} :
    /\ InFlight(t) /\ InFlight(u)
    /\ processor[t] # processor[u]
    /\ pc[v] = "done" /\ processor[v] = processor[t]

\* C2 (pool invariant): every processor ever created is in the pool exactly
\* once, and is either idle (flag false, owned by no call) or busy and owned
\* by exactly one in-flight invocation; the flag is true for as long as the
\* invocation holds the processor, and is never true for a processor that no
\* in-flight invocation owns.
IdleOrOwnedByOne ==
  /\ processors = [i \in Processors |-> i]
  /\ \A p \in Processors :
       LET owners == {t \in Threads : OwnsFlagged(t, p)}
       IN IF is_used[p] THEN Cardinality(owners) = 1 ELSE owners = {}
  /\ \A t \in Threads : InFlight(t) => processor[t] \in Processors

\* One processor is busy and held by a call that has sent its response and
\* not yet released it, while another processor of the pool is idle.
IdleOrOwnedByOneWitness ==
  \E t \in Threads : \E q \in Processors :
    /\ pc[t] = "unused"
    /\ is_used[processor[t]]
    /\ ~is_used[q]

\* C3 (no leak): an invocation acquires at most one processor; while it
\* holds it, it has not released anything; when Handle is done it has
\* released exactly once, and exactly the processor it acquired; the release
\* step leaves that processor idle (so a later scan can select it again).
NoLeak ==
  /\ [](\A t \in Threads :
          /\ Len(acquired[t]) <= 1
          /\ InFlight(t) => acquired[t] = <<processor[t]>> /\ released[t] = << >>
          /\ ~InFlight(t) /\ pc[t] # "done"
               => acquired[t] = << >> /\ released[t] = << >>
          /\ pc[t] = "done"
               => Len(acquired[t]) = 1 /\ released[t] = acquired[t])
  /\ [][\A t \in Threads :
          pc[t] = "unused" /\ pc'[t] = "done" => ~is_used'[processor[t]]]_vars

\* A processor that one invocation released (and that was idle in between)
\* has been selected again by a later GetProcessor of another invocation.
NoLeakWitness ==
  \E t \in Threads : \E u \in Threads \ {t} :
    /\ pc[t] = "done"
    /\ released[t] = <<processor[t]>>
    /\ pc[u] = "ProcessCall"
    /\ acquired[u] = <<processor[t]>>
    /\ Len(processors) = 1

\* C4 (one response per call): an invocation has serialized and acknowledged
\* nothing before SendResponse and exactly one response after it, for a
\* result and for an error payload alike, whatever the other calls do.
ExactlyOneResponse ==
  \A t \in Threads :
    /\ pc[t] \in {"unused", "done"}
         => serialized[t] = 1 /\ responded[t] = 1
    /\ pc[t] \notin {"unused", "done"}
         => serialized[t] = 0 /\ responded[t] = 0

\* Two calls have been answered, one with a result and one with an error
\* payload, while a third call is still being processed.
ExactlyOneResponseWitness ==
  \E t \in Threads : \E u \in Threads \ {t} : \E v \in Threads \ {t, u} :
    /\ pc[t] = "done" /\ response[t] = "ok" /\ responded[t] = 1
    /\ pc[u] = "done" /\ response[u] = "error" /\ responded[u] = 1
    /\ pc[v] = "ProcessCall"

\* C5 (forward progress): under fair scheduling every invocation that has
\* entered Handle gets a processor and reaches ProcessCall, and every
\* invocation whose ProcessCall has returned responds, releases and
\* finishes, also in the behaviours where other invocations never return
\* from ProcessCall and keep their processors busy for ever.
ForwardProgress ==
  \A t \in LiveThreads :
    /\ (pc[t] = "GetProcessor") ~> (pc[t] = "ProcessCall")
    /\ (pc[t] = "SendResponse") ~> (pc[t] = "done")

\* One invocation has finished while every other thread that receives calls
\* is inside ProcessCall, holding its processor busy.
ForwardProgressWitness ==
  \E t \in LiveThreads :
    /\ pc[t] = "done"
    /\ \A u \in LiveThreads \ {t} :
         pc[u] = "ProcessCall" /\ is_used[processor[u]]

\* The thread that takes the step.
Steps(t) == pc'[t] # pc[t] \/ it'[t] # it[t]

\* C6 (all accesses under the mutex): every step that writes a busy flag or
\* the pool collection is taken by the thread that holds process_mutex_.
FlagWritesUnderMutex ==
  [][\A t \in Threads :
       Steps(t) /\ (is_used' # is_used \/ processors' # processors)
         => t \in process_mutex]_vars

\* C7 (lock scope): the mutex has at most one holder, and its holder is
\* inside GetProcessor: no thread holds it while it is in ProcessCall, in
\* SendResponse, at unused() or outside Handle.
MutexOnlyInGetProcessor ==
  /\ Cardinality(process_mutex) <= 1
  /\ \A t \in Threads :
       t \in process_mutex <=> pc[t] \in {"scan", "used", "return"}

\* While one invocation is inside ProcessCall, another one holds the mutex
\* and has selected a processor.
MutexOnlyInGetProcessorWitness ==
  \E t \in Threads : \E u \in Threads \ {t} :
    /\ pc[t] = "ProcessCall"
    /\ pc[u] = "return"
    /\ process_mutex = {u}

\* C8 (monotonic growth): no step makes the pool smaller, and the pool
\* holds at least as many processors as there are invocations that
\* GetProcessor has returned to and that have not yet released.
MonotonicGrowth ==
  /\ [][Len(processors') >= Len(processors)]_vars
  /\ [](Cardinality({t \in Threads : InFlight(t)}) <= Len(processors))

\* Every thread holds a processor at once, and the pool has one for each.
MonotonicGrowthWitness ==
  /\ \A t \in Threads : InFlight(t)
  /\ Len(processors) = NThreads

\* C9 (unconditional release): whatever response processing produced, a
\* result or an error, it is non-null and is sent, the invocation then goes
\* on to unused(), the release step leaves its processor idle, and the
\* finished invocation has released the processor it acquired.
ReleaseUnconditional ==
  /\ [](\A t \in Threads :
          /\ pc[t] \in {"SendResponse", "unused", "done"}
               => response[t] \in {"ok", "error"}
          /\ pc[t] \in {"unused", "done"} => responded[t] = 1
          /\ pc[t] = "done" => released[t] = <<processor[t]>>)
  /\ [][\A t \in Threads :
          /\ pc[t] = "SendResponse" /\ pc'[t] # pc[t] => pc'[t] = "unused"
          /\ pc[t] = "unused" /\ pc'[t] # pc[t]
               => pc'[t] = "done" /\ ~is_used'[processor[t]]]_vars

\* An invocation whose processing failed has finished: its error response
\* was sent and its processor is idle again.
ReleaseUnconditionalWitness ==
  \E t \in Threads :
    /\ pc[t] = "done"
    /\ response[t] = "error"
    /\ responded[t] = 1
    /\ ~is_used[processor[t]]

\* C10 (initial pool): the constructed service has as many processors as
\* FLAGS_cql_service_num_threads says, all idle, and with no more threads
\* than that the pool keeps that size.
InitialPoolHasConfiguredSize ==
  /\ Len(processors) >= cql_service_num_threads
  /\ NThreads <= cql_service_num_threads
       => Len(processors) = cql_service_num_threads

----------------------------------------------------------------------------
\* C11 (create only when needed): at the end of the scan, when the scan has
\* seen an idle processor GetProcessor keeps it, it is a processor of the
\* pool, and the pool is unchanged; when it has seen none, exactly one new
\* processor is created, appended at the end and selected, so the size grows
\* by 1.  A processor that was idle when the scan began is always seen, and
\* with no idle processor in the pool none is seen.
CreateOnlyWhenNeeded ==
  [][\A t \in Threads :
       pc[t] = "scan" /\ pc'[t] = "used" =>
         /\ scan_idle # {} => cql_processor[t] # nullptr
         /\ IdleProcessors = {} => cql_processor[t] = nullptr
         /\ IF cql_processor[t] # nullptr
            THEN /\ processors' = processors
                 /\ is_used' = is_used
                 /\ cql_processor'[t] = cql_processor[t]
                 /\ \E i \in 1..Len(processors) :
                      processors[i] = cql_processor[t]
                 /\ ~is_used[cql_processor[t]]
            ELSE /\ Len(processors') = Len(processors) + 1
                 /\ SubSeq(processors', 1, Len(processors)) = processors
                 /\ cql_processor'[t] = processors'[Len(processors')]
                 /\ \A i \in 1..Len(processors) :
                      processors[i] # cql_processor'[t]
                 /\ Len(is_used') = Len(is_used) + 1]_vars

\* In a pool that has grown to two processors, a scan that began with an
\* idle processor has ended with one of them selected and nothing created.
CreateOnlyWhenNeededWitness ==
  \E t \in Threads :
    /\ pc[t] = "used"
    /\ scan_idle # {}
    /\ cql_processor[t] \in scan_idle
    /\ Len(processors) = 2
    /\ Len(is_used) = 2

----------------------------------------------------------------------------
\* The threads that hold a processor at once.
Holders == {t \in Threads : InFlight(t)}

\* C12 (pool bound): the pool never holds more processors than the peak
\* number of Handle invocations in flight at once so far (the pool starts
\* empty); the invocations that hold a processor at once hold distinct
\* processors of the pool, so k invocations that overlap have k processors,
\* and exactly k when no more than k were ever in flight; the processors
\* stay in the pool after their release.
PoolBoundedByPeak ==
  /\ Len(processors) <= Max(0, peak)
  /\ Cardinality(Holders) <= Len(processors)
  /\ Cardinality({processor[t] : t \in Holders}) = Cardinality(Holders)
  /\ Cardinality(Holders) = peak => Len(processors) = peak

\* All the invocations have overlapped, each holding a processor, and all
\* have released: the pool has as many processors as there were
\* invocations, all idle.
PoolBoundedByPeakWitness ==
  /\ peak = NLiveThreads
  /\ \A t \in LiveThreads : pc[t] = "done"
  /\ Cardinality({processor[t] : t \in LiveThreads}) = NLiveThreads
  /\ Len(processors) = NLiveThreads
  /\ IdleProcessors = 1..NLiveThreads

----------------------------------------------------------------------------
\* GetProcessor grows the pool on this step.
Grows == Len(processors') > Len(processors)

\* C13 (amortized growth), as stated: whenever GetProcessor grows the pool,
\* the capacity after the growth is at least max(2 x old, old + 10), where
\* old is the capacity before the growth, which is also the size.
GrowthRelativeToCapacity ==
  [][Grows =>
       /\ capacity = Len(processors)
       /\ capacity' >= Max(2 * capacity, capacity + kMinReserve)]_vars

\* C13 (amortized growth), amended: whenever GetProcessor grows the pool,
\* the capacity after the growth is at least max(2 x old, old + 10), where
\* old is the number of processors before the growth; the capacity never
\* decreases and always covers the processors of the pool.
GrowthRelativeToSize ==
  [][/\ Grows =>
          capacity' >= Max(2 * Len(processors),
                           Len(processors) + kMinReserve)
     /\ capacity' >= capacity
     /\ capacity' >= Len(processors')]_vars

\* The pool has grown twice: the second growth, from one processor under a
\* capacity of 10, has left a capacity of 11.
GrowthRelativeToSizeWitness ==
  /\ Len(processors) = 2
  /\ capacity = 1 + kMinReserve

----------------------------------------------------------------------------
\* The steps of SendResponse after its CHECK that invocation t has performed.
Answered(t) ==
  {i \in 1..Len(trace[t]) : trace[t][i][1] \in {"Serialize", "RespondSuccess"}}

\* ProcessCall has returned to invocation t and left its response null.
NullReturned(t) ==
  /\ \E i \in 1..Len(trace[t]) : trace[t][i][1] = "ProcessCall"
  /\ response[t] = "null"

\* C14 (null response is fatal): when ProcessCall has left the response
\* null, SendResponse stops at its CHECK: nothing is serialized, no
\* acknowledgment is sent, and Handle goes no further (no release, no
\* return); the failed CHECK stops every thread of the process.  An
\* invocation past SendResponse has a response that is not null.
NullResponseIsFatal ==
  /\ \A t \in Threads :
       NullReturned(t) =>
         /\ pc[t] \in {"SendResponse", "aborted"}
         /\ serialized[t] = 0
         /\ responded[t] = 0
         /\ Answered(t) = {}
         /\ released[t] = <<>>
         /\ IsUsed(is_used, processor[t])
  /\ \A t \in Threads :
       pc[t] \in {"unused", "done"} => response[t] \in Responses
  /\ (\E t \in Threads : pc[t] = "aborted") =>
       /\ \A t \in Threads : pc[t] = "aborted"
       /\ \E t \in Threads : NullReturned(t)

\* The CHECK has failed on a null response while another invocation had
\* been answered and was about to release its processor.
NullResponseIsFatalWitness ==
  \E t \in Threads : \E u \in Threads \ {t} :
    /\ pc[t] = "aborted"
    /\ NullReturned(t)
    /\ serialized[t] = 0
    /\ responded[t] = 0
    /\ responded[u] = 1
    /\ released[u] = <<>>

----------------------------------------------------------------------------
\* C15 (checkpoint order): within one Handle invocation the checkpoints are
\* taken from the monotonic clock in the order start, got_processor,
\* process_done, response_done, so start <= got_processor <= process_done
\* <= response_done, no checkpoint is later than the clock, and every
\* emitted duration sample is non-negative.
CheckpointsOrdered ==
  \A t \in Threads :
    /\ pc[t] # "idle" => checkpoint[t].start <= now
    /\ pc[t] \in {"ProcessCall", "SendResponse", "unused", "done"} =>
         /\ checkpoint[t].start <= checkpoint[t].got_processor
         /\ checkpoint[t].got_processor <= now
    /\ pc[t] \in {"SendResponse", "unused", "done"} =>
         /\ checkpoint[t].got_processor <= checkpoint[t].process_done
         /\ checkpoint[t].process_done <= now
    /\ pc[t] = "done" =>
         /\ checkpoint[t].process_done <= checkpoint[t].response_done
         /\ checkpoint[t].response_done <= now
    /\ \A i \in 1..Len(samples[t]) : samples[t][i][2] >= 0

\* An invocation has finished with the clock advancing between each pair of
\* consecutive checkpoints.
CheckpointsOrderedWitness ==
  \E t \in Threads :
    /\ pc[t] = "done"
    /\ checkpoint[t].start < checkpoint[t].got_processor
    /\ checkpoint[t].got_processor < checkpoint[t].process_done
    /\ checkpoint[t].process_done < checkpoint[t].response_done
    /\ Len(samples[t]) > 0

----------------------------------------------------------------------------
\* The samples a finished invocation has emitted when "time to process
\* request" runs from `from` to `to` and "time to queue response" from
\* `since` to response_done.
Emitted(t, from, to, since) ==
  << <<"time_to_get_cql_processor",
       GetDeltaSince(checkpoint[t].got_processor, checkpoint[t].start)>>,
     <<"time_to_process_request", GetDeltaSince(to, from)>>,
     <<"time_to_queue_cql_response",
       GetDeltaSince(checkpoint[t].response_done, since)>> >>

\* C16 (the three samples), as stated: a finished invocation has emitted
\* exactly three samples: time to get processor = got_processor - start,
\* time to process request = third checkpoint - got_processor (without the
\* time spent acquiring the processor), time to queue response =
\* response_done - third checkpoint.
SamplesExcludeAcquisition ==
  \A t \in Threads :
    pc[t] = "done" =>
      samples[t] = Emitted(t, checkpoint[t].got_processor,
                           checkpoint[t].process_done,
                           checkpoint[t].process_done)

\* C16 (the three samples), amended: a finished invocation has emitted
\* exactly three samples: time to get processor = got_processor - start,
\* time to process request = response_done - start (the whole invocation,
\* acquisition included), time to queue response = response_done -
\* process_done; process_done is the clock when ProcessCall returns, with
\* nothing serialized yet, and SendResponse does not read the clock.  Before
\* the release only the first sample exists.
SamplesAsEmitted ==
  /\ [](\A t \in Threads :
          /\ pc[t] = "done" =>
               samples[t] = Emitted(t, checkpoint[t].start,
                                    checkpoint[t].response_done,
                                    checkpoint[t].process_done)
          /\ pc[t] \in {"ProcessCall", "SendResponse", "unused"} =>
               samples[t] = SubSeq(Emitted(t, 0, 0, 0), 1, 1)
          /\ pc[t] \in {"idle", "GetProcessor", "scan", "used", "return"} =>
               samples[t] = << >>)
  /\ [][\A t \in Threads :
          /\ pc[t] = "ProcessCall" /\ pc'[t] = "SendResponse" =>
               /\ checkpoint'[t].process_done = now
               /\ serialized'[t] = 0
          /\ serialized'[t] > serialized[t] =>
               /\ pc[t] = "SendResponse"
               /\ checkpoint'[t] = checkpoint[t]]_vars

\* An invocation has finished after the clock advanced during the
\* acquisition and again during SendResponse: its "time to process request"
\* is longer than the time from got_processor to process_done.
SamplesAsEmittedWitness ==
  \E t \in Threads :
    /\ pc[t] = "done"
    /\ Len(samples[t]) = 3
    /\ samples[t][1][2] > 0
    /\ samples[t][3][2] > 0
    /\ samples[t][2][2] >
         checkpoint[t].process_done - checkpoint[t].got_processor

----------------------------------------------------------------------------
\* The index GetProcessor selects in a pool of n processors of which those
\* at the indexes `idle` are idle, when no flag changes during the scan: the
\* last idle one, or the new element n + 1.
SelectedIndex(n, idle) ==
  IF idle = {} THEN n + 1 ELSE CHOOSE i \in idle : \A j \in idle : j <= i

\* No processor has been released since the mutex was locked.
Undisturbed == IdleProcessors = scan_idle

\* C17 (deterministic selection): with no release during the scan, the
\* processor GetProcessor selects is a function of the number of processors
\* and of their busy flags when the scan began: it is the processor at
\* index SelectedIndex of the pool, and the pool grows exactly when that
\* index is a new one.
SelectionDeterministic ==
  [][\A t \in Threads :
       pc[t] = "scan" /\ pc'[t] = "used" /\ Undisturbed =>
         LET index == SelectedIndex(Len(processors), scan_idle)
         IN /\ Len(processors') = Max(Len(processors), index)
            /\ cql_processor'[t] = processors'[index]]_vars

\* A scan of two processors, both idle from its beginning to its end, has
\* selected the second.
SelectionDeterministicWitness ==
  \E t \in Threads :
    /\ pc[t] = "used"
    /\ Undisturbed
    /\ scan_idle = {1, 2}
    /\ cql_processor[t] = processors[SelectedIndex(Len(processors), {1, 2})]

----------------------------------------------------------------------------
\* C18 (the scan visits every processor): the scan leaves its loop only
\* after the last processor, also when it already has a candidate; its
\* candidate is always an idle processor of the pool, and the processor it
\* ends with is idle when it is flagged busy.  With no release during the
\* scan and some processor idle, the scan ends with the idle processor of
\* highest index; a processor released ahead of the iterator is selected
\* although it was busy when the scan began.
ScanVisitsAll ==
  /\ [](\A t \in Threads :
          /\ pc[t] = "scan" /\ cql_processor[t] # nullptr =>
               /\ \E i \in 1..(it[t] - 1) : processors[i] = cql_processor[t]
               /\ ~IsUsed(is_used, cql_processor[t])
          /\ pc[t] = "scan" /\ it[t] > Len(processors) /\ Undisturbed =>
               /\ \A i \in scan_idle : i <= cql_processor[t]
               /\ scan_idle # {} => cql_processor[t] \in scan_idle
          /\ pc[t] = "used" =>
               /\ cql_processor[t] # nullptr
               /\ ~IsUsed(is_used, cql_processor[t]))
  /\ [][\A t \in Threads :
          /\ pc[t] = "scan" /\ pc'[t] # "scan" => it[t] = Len(processors) + 1
          /\ pc[t] = "scan" /\ pc'[t] = "scan" /\ it'[t] # it[t] =>
               /\ it'[t] = it[t] + 1
               /\ it[t] <= Len(processors)]_vars

\* A scan has ended with a processor that was busy when the scan began: it
\* was released before the iterator reached it.
ScanVisitsAllWitness ==
  \E t \in Threads :
    /\ pc[t] = "used"
    /\ cql_processor[t] \notin scan_idle
    /\ cql_processor[t] \in IdleProcessors
    /\ it[t] = Len(processors) + 1

----------------------------------------------------------------------------
\* The steps of one Handle invocation on processor p, in the order of the
\* code.
HandleSteps(p) ==
  << <<"GetProcessor", p>>, <<"ProcessCall", p>>, <<"Serialize", p>>,
     <<"RespondSuccess", p>>, <<"unused", p>> >>

\* The number of steps an invocation has performed at each point of Handle.
StepsDone(t) ==
  CASE pc[t] = "ProcessCall" -> 1
    [] pc[t] = "SendResponse" -> 2
    [] pc[t] = "unused" -> 4
    [] pc[t] = "done" -> 5
    [] OTHER -> 0

\* C19 (order of the steps): the steps of each Handle invocation occur in
\* the order acquire, ProcessCall, serialize, acknowledge, release, all on the
\* processor the invocation acquired; from the acquisition until the release
\* (while the response is produced and sent) the processor is flagged busy
\* and no other invocation owns it.
StepsInOrder ==
  \A t \in Threads :
    /\ Len(trace[t]) = StepsDone(t)
    /\ trace[t] = SubSeq(HandleSteps(processor[t]), 1, StepsDone(t))
    /\ StepsDone(t) \in 1..4 =>
         /\ processor[t] # nullptr
         /\ IsUsed(is_used, processor[t])
         /\ \A u \in Threads \ {t} : Owned(u) # processor[t]

\* An invocation has performed its five steps on a processor that, now
\* released, another invocation has acquired and is using.
StepsInOrderWitness ==
  \E t \in Threads : \E u \in Threads \ {t} :
    /\ trace[t] = HandleSteps(processor[t])
    /\ trace[u] = SubSeq(HandleSteps(processor[t]), 1, 2)

----------------------------------------------------------------------------
\* The processors of the pool whose busy flag this step changes.
FlagsChanged == {p \in 1..Len(is_used) : is_used'[p] # is_used[p]}

\* C20 (frame conditions): every step leaves the processors of the pool at
\* their positions and appends at most one, idle, and only GetProcessor
\* appends; a step of GetProcessor changes no flag but the one of the
\* processor it selected, which it sets; the release changes no flag but
\* the one of the released processor, which it clears, and leaves the size
\* of the pool unchanged.
FrameConditions ==
  [][/\ SubSeq(processors', 1, Len(processors)) = processors
     /\ Len(processors') \in {Len(processors), Len(processors) + 1}
     /\ Len(is_used') = Len(processors')
     /\ Grows =>
          /\ ~IsUsed(is_used', processors'[Len(processors')])
          /\ FlagsChanged = {}
          /\ \E t \in process_mutex : pc[t] = "scan" /\ pc'[t] = "used"
     /\ \A t \in Threads :
          /\ pc[t] \in {"GetProcessor", "scan", "return"} /\ Steps(t) =>
               FlagsChanged = {}
          /\ pc[t] = "used" /\ Steps(t) =>
               /\ FlagsChanged = {cql_processor[t]}
               /\ IsUsed(is_used', cql_processor[t])
               /\ processors' = processors
          /\ pc[t] = "unused" /\ Steps(t) =>
               /\ FlagsChanged = {processor[t]}
               /\ ~IsUsed(is_used', processor[t])
               /\ processors' = processors
               /\ capacity' = capacity
          /\ pc[t] \in {"idle", "ProcessCall", "SendResponse", "done"}
               /\ Steps(t) =>
               /\ FlagsChanged = {}
               /\ processors' = processors]_vars

\* The pool grew to two processors while the first was held, and the
\* first has since been released while the second is still held and busy.
FrameConditionsWitness ==
  \E t \in Threads : \E u \in Threads \ {t} :
    /\ Len(processors) = 2
    /\ pc[t] = "done"
    /\ released[t] = <<processors[1]>>
    /\ ~IsUsed(is_used, processors[1])
    /\ Holds(u, processors[2])
    /\ IsUsed(is_used, processors[2])

====
